---- MODULE Spec2Model ----
(***************************************************************************)
(* ArithmeticParser (modules/gaivanuk-alexander-arithmetic-parser):        *)
(* a lexer, a recursive descent parser that compiles a formula in x to a   *)
(* postfix token sequence (rpn), and a stack machine that evaluates it.    *)
(*                                                                         *)
(* The parser is modelled as a small-step machine: one step per basic      *)
(* block of the C++ code, with an explicit call stack.  parse() as a whole *)
(* is the iteration of that step to completion.                            *)
(*                                                                         *)
(* Characters are one-character strings, "NUL" is the terminating '\0' of  *)
(* the C string.  A double is modelled by an exact rational where the      *)
(* result is rational, and by the unevaluated expression otherwise.        *)
(***************************************************************************)
EXTENDS Integers, Sequences, FiniteSets, TLC

VARIABLES
    text,     \* the characters of the string parse() was called with
    data,     \* const char *data: index of the cursor into text (1-based)
    token,    \* Token token: the lookahead
    rpn,      \* vector<Token> rpn: the compiled postfix program
    buf,      \* vector<char> buf: [mem, size], mem is the allocated block
    pc,       \* position of the running parse ("idle" between calls)
    stack,    \* suspended callers: frames [pc, loc]
    loc,      \* the locals of the running grammar rule: [tt, functionIndex]
    state,    \* getToken's token_state
    n,        \* getToken's int n
    ret,      \* what the last parse() returned
    lexed,    \* history: the tokens getToken() returned to this parse
    cuts,     \* history: the cursor at each of these returns
    tick,     \* history: flips with every step of a running parse
    result,   \* what the last evaluate() since the last parse returned
    op,       \* the last public call: "new", "parse" or "evaluate"
    arg,      \* the x of that evaluate()
    calls,    \* the evaluate() calls since the last parse: <<x, result>>
    hist      \* history of the last parse() call, see Parse

vars == <<text, data, token, rpn, buf, pc, stack, loc, state, n, ret, lexed,
          cuts, tick, result, op, arg, calls, hist>>

----------------------------------------------------------------------------
(* Characters *)

NUL == "NUL"

Digits == {"0", "1", "2", "3", "4", "5", "6", "7", "8", "9"}

Letters == {"a", "b", "c", "g", "i", "l", "n", "o", "r", "s", "t", "f",
            "x", "X"}

Spaces == {" "}

isdigit(c) == c \in Digits

isalpha(c) == c \in Letters

isspace(c) == c \in Spaces

\* c - '0'
DigitVal(c) ==
    CASE c = "0" -> 0 [] c = "1" -> 1 [] c = "2" -> 2 [] c = "3" -> 3
      [] c = "4" -> 4 [] c = "5" -> 5 [] c = "6" -> 6 [] c = "7" -> 7
      [] c = "8" -> 8 [] c = "9" -> 9

\* *data for a cursor p: the character, or the terminator behind the last one
CharAt(s, p) == IF p >= 1 /\ p <= Len(s) THEN s[p] ELSE NUL

----------------------------------------------------------------------------
(* Doubles *)

RECURSIVE GCD(_, _)
GCD(a, b) == IF b = 0 THEN a ELSE GCD(b, a % b)

Abs(a) == IF a < 0 THEN -a ELSE a

\* the rational a/b (b # 0) in lowest terms with a positive denominator
Rat(a, b) ==
    LET g == GCD(Abs(a), Abs(b))
        s == IF b < 0 THEN -1 ELSE 1
    IN  [k |-> "rat", n |-> (s * a) \div g, d |-> Abs(b) \div g]

Num(a) == Rat(a, 1)

\* a value that is not computed exactly: the expression that denotes it
Sym(o, as) == [k |-> "sym", op |-> o, args |-> as]

IsRat(v) == v.k = "rat"

\* the rationals this model computes with exactly
ExactLimit == 30000

Small(v) == IsRat(v) /\ Abs(v.n) <= ExactLimit /\ v.d <= ExactLimit

RECURSIVE IntPow(_, _)
IntPow(b, e) == IF e = 0 THEN 1 ELSE b * IntPow(b, e - 1)

Add(a, b) ==
    IF Small(a) /\ Small(b) THEN Rat(a.n * b.d + b.n * a.d, a.d * b.d)
    ELSE Sym("+", <<a, b>>)

Sub(a, b) ==
    IF Small(a) /\ Small(b) THEN Rat(a.n * b.d - b.n * a.d, a.d * b.d)
    ELSE Sym("-", <<a, b>>)

Mul(a, b) ==
    IF Small(a) /\ Small(b) THEN Rat(a.n * b.n, a.d * b.d)
    ELSE Sym("*", <<a, b>>)

\* no divide-by-zero guard: x/0 is an infinity or a NaN, kept as the expression
Div(a, b) ==
    IF Small(a) /\ Small(b) /\ b.n # 0 THEN Rat(a.n * b.d, a.d * b.n)
    ELSE Sym("/", <<a, b>>)

\* what pow() is computed exactly for: integer exponents up to MaxExactExp of
\* bases whose numerator and denominator are at most MaxExactBase
MaxExactExp == 6

MaxExactBase == 12

Pow(a, b) ==
    IF IsRat(a) /\ IsRat(b) /\ b.d = 1 /\ Abs(b.n) <= MaxExactExp
       /\ Abs(a.n) <= MaxExactBase /\ a.d <= MaxExactBase
       /\ ~(a.n = 0 /\ b.n < 0)
    THEN IF b.n >= 0 THEN Rat(IntPow(a.n, b.n), IntPow(a.d, b.n))
         ELSE Rat(IntPow(a.d, -b.n), IntPow(a.n, -b.n))
    ELSE Sym("pow", <<a, b>>)

Neg(a) == IF IsRat(a) THEN Rat(-a.n, a.d) ELSE Sym("neg", <<a>>)

----------------------------------------------------------------------------
(* Tokens and tables *)

\* enum token_t, in the order that makes (token_t)index of a delimiter its token
token_t == <<"T_POW", "T_PLUS", "T_MINUS", "T_MUL", "T_DIV", "T_LPAREN",
             "T_RPAREN", "T_NEGATE", "T_NUMBER", "T_X", "T_FUNC", "T_END">>

\* Token(type), Token(type, int), Token(type, double)
Token(t) == [type |-> t, intValue |-> 0, realValue |-> Num(0)]

TokenI(t, i) == [type |-> t, intValue |-> i, realValue |-> Num(0)]

TokenR(t, r) == [type |-> t, intValue |-> 0, realValue |-> r]

delims == <<"^", "+", "-", "*", "/", "(", ")">>

funcnames == << <<"c", "o", "s">>, <<"s", "i", "n">>, <<"t", "g">>,
                <<"c", "t", "g">>, <<"a", "r", "c", "s", "i", "n">>,
                <<"a", "r", "c", "c", "o", "s">>, <<"a", "r", "c", "t", "g">>,
                <<"l", "n">>, <<"l", "g">>, <<"a", "b", "s">> >>

\* std::find + std::distance: the index of the first equal element, or the
\* length of the sequence (end()) when there is none; 0-based as in the code
Find(seq, e) ==
    IF \E i \in 1..Len(seq) : seq[i] = e
    THEN (CHOOSE i \in 1..Len(seq) :
              seq[i] = e /\ \A j \in 1..(i - 1) : seq[j] # e) - 1
    ELSE Len(seq)

\* functions[i](v): cos, sin, tan, 1/tan, asin, acos, atan, log, log10, fabs
functions(i, v) ==
    CASE i = 0 /\ v = Num(0) -> Num(1)
      [] i = 1 /\ v = Num(0) -> Num(0)
      [] i = 2 /\ v = Num(0) -> Num(0)
      [] i = 3 /\ v = Num(0) -> Div(Num(1), Num(0))
      [] i = 4 /\ v = Num(0) -> Num(0)
      [] i = 5 /\ v = Num(1) -> Num(0)
      [] i = 6 /\ v = Num(0) -> Num(0)
      [] i = 7 /\ v = Num(1) -> Num(0)
      [] i = 8 /\ v = Num(1) -> Num(0)
      [] i = 8 /\ v = Num(10) -> Num(1)
      [] i = 9 /\ IsRat(v) -> Rat(Abs(v.n), v.d)
      [] OTHER -> Sym(<<"functions", i>>, <<v>>)

----------------------------------------------------------------------------
(* The scratch buffer *)

\* buf.reserve(80)
BufCap == 80

\* buf.clear(): the size drops to 0, the block keeps its bytes
BufClear(b) == [b EXCEPT !.size = 0]

\* buf.push_back(c) below the reserved capacity (the inputs of this model
\* never fill the block, so the vector never reallocates)
BufPush(b, c) ==
    IF b.size < BufCap
    THEN [mem |-> [b.mem EXCEPT ![b.size + 1] = c], size |-> b.size + 1]
    ELSE b

\* the digits of the block from cell i up to the first byte that is no digit
DigitRun(mem, i) ==
    LET stop == CHOOSE j \in i..(Len(mem) + 1) :
                    /\ j = Len(mem) + 1 \/ ~isdigit(mem[j])
                    /\ \A k \in i..(j - 1) : isdigit(mem[k])
    IN  SubSeq(mem, i, stop - 1)

RECURSIVE DigitsValue(_)
DigitsValue(ds) ==
    IF ds = <<>> THEN 0
    ELSE DigitsValue(SubSeq(ds, 1, Len(ds) - 1)) * 10 + DigitVal(ds[Len(ds)])

\* the fractional digits a double of this model keeps
Precision == 4

Take(seq, k) == SubSeq(seq, 1, IF Len(seq) < k THEN Len(seq) ELSE k)

\* atof(buf.data()): reads the block itself, from its first byte up to the
\* first byte that cannot continue a decimal number -- not up to buf.size()
atof(mem) ==
    LET ip == DigitRun(mem, 1)
        dot == Len(ip) + 1
        fp == IF dot <= Len(mem) /\ mem[dot] = "."
              THEN Take(DigitRun(mem, dot + 1), Precision) ELSE <<>>
    IN  Add(Num(DigitsValue(ip)), Rat(DigitsValue(fp), IntPow(10, Len(fp))))

----------------------------------------------------------------------------
(* The running parse: a machine m = [text, data, token, rpn, buf, pc, stack, *)
(* loc, state, n, ret].  A label names the source line the step starts at.  *)

\* a call: the caller is suspended at the label it continues at
Call(m, entry, retpc) ==
    [m EXCEPT !.stack = Append(@, [pc |-> retpc, loc |-> m.loc]),
              !.pc = entry]

\* a return to the suspended caller
Return(m) ==
    LET f == m.stack[Len(m.stack)]
    IN  [m EXCEPT !.pc = f.pc, !.loc = f.loc,
                  !.stack = SubSeq(@, 1, Len(@) - 1)]

\* throw: every frame up to parse()'s try block is unwound
Throw(m) == [m EXCEPT !.pc = "catch", !.stack = <<>>]

\* nextToken(): token = getToken(); this is the call, TokenReturn the return
nextToken(m, retpc) ==
    Call([m EXCEPT !.state = "TS_INITIAL", !.n = 0], "getToken_113", retpc)

TokenReturn(m, tok) ==
    Return([m EXCEPT !.token = tok, !.lexed = Append(@, tok),
                     !.cuts = Append(@, m.data)])

\* expectToken(type): throws unless the lookahead has this type
expectToken(m, t) == m.token.type = t

\* the C string at the start of a block: its bytes before the first '\0'
RECURSIVE CStr(_, _)
CStr(mem, i) ==
    IF i > Len(mem) \/ mem[i] = NUL THEN <<>>
    ELSE <<mem[i]>> \o CStr(mem, i + 1)

GetTokenLabels == {"getToken_113", "getToken_135", "getToken_147",
                   "getToken_160"}

\* a lexer that takes a space for the end of the text
SkipSpaceEnds(m) ==
    TokenReturn([m EXCEPT !.data = @ + 1], Token("T_END"))

\* a lexer that never leaves a space behind
SkipSpaceStays(m) == m

\* if (isspace(c)) data++;
SkipSpace(m) == [m EXCEPT !.data = @ + 1]

\* an end of input that is consumed like a character
EndOfInputConsumes(m) ==
    TokenReturn([m EXCEPT !.data = @ + 1], Token("T_END"))

\* if (c == 0) return Token(T_END); the cursor stays on the terminator
EndOfInput(m) == TokenReturn(m, Token("T_END"))

\* TS_NUMBER without the check of the character behind the point
getTokenNumberNoCheck(m) ==
    LET c == CharAt(m.text, m.data) IN
    IF isdigit(c)
    THEN [m EXCEPT !.n = @ * 10 + DigitVal(c), !.data = @ + 1]
    ELSE IF c = "."
    THEN [m EXCEPT !.data = @ + 1,
                   !.buf = BufPush(BufPush(BufClear(@), "0"), "."),
                   !.pc = "getToken_147"]
    ELSE TokenReturn(m, TokenR("T_NUMBER", Num(m.n)))

\* TS_NUMBER: one iteration of the loop over the integer digits, then the
\* point and the check of the character behind it, or the integer's token
getTokenNumber(m) ==
    LET c == CharAt(m.text, m.data) IN
    IF isdigit(c)
    THEN [m EXCEPT !.n = @ * 10 + DigitVal(c), !.data = @ + 1]
    ELSE IF c = "."
    THEN IF ~isdigit(CharAt(m.text, m.data + 1))
         THEN Throw([m EXCEPT !.data = @ + 1])
         ELSE [m EXCEPT !.data = @ + 1,
                        !.buf = BufPush(BufPush(BufClear(@), "0"), "."),
                        !.pc = "getToken_147"]
    ELSE TokenReturn(m, TokenR("T_NUMBER", Num(m.n)))

\* the loop over the fractional digits, running on over a further point
getTokenFractionDots(m) ==
    LET c == CharAt(m.text, m.data)
        m2 == [m EXCEPT !.buf = BufPush(@, c), !.data = @ + 1]
    IN  IF isdigit(CharAt(m2.text, m2.data)) \/ CharAt(m2.text, m2.data) = "."
        THEN m2
        ELSE TokenReturn(m2, TokenR("T_NUMBER",
                                    Add(Num(m2.n), atof(m2.buf.mem))))

\* one iteration of the do-while over the fractional digits, and behind the
\* last of them value = n + atof(buf.data())
getTokenFraction(m) ==
    LET c == CharAt(m.text, m.data)
        m2 == [m EXCEPT !.buf = BufPush(@, c), !.data = @ + 1]
    IN  IF isdigit(CharAt(m2.text, m2.data)) THEN m2
        ELSE TokenReturn(m2, TokenR("T_NUMBER",
                                    Add(Num(m2.n), atof(m2.buf.mem))))

\* one iteration of a loop of getToken()
getToken(m) ==
    LET c == CharAt(m.text, m.data) IN
    CASE m.pc = "getToken_113" /\ m.state = "TS_INITIAL" ->
           IF isspace(c) THEN SkipSpace(m)
           ELSE IF c \in {"x", "X"}
           THEN TokenReturn([m EXCEPT !.data = @ + 1], Token("T_X"))
           ELSE IF isdigit(c)
           THEN [m EXCEPT !.n = DigitVal(c), !.data = @ + 1,
                          !.state = "TS_NUMBER"]
           ELSE IF isalpha(c) THEN [m EXCEPT !.state = "TS_FUNCNAME"]
           ELSE IF c = NUL THEN EndOfInput(m)
           ELSE [m EXCEPT !.state = "TS_DELIM"]
      [] m.pc = "getToken_113" /\ m.state = "TS_NUMBER" ->
           [m EXCEPT !.pc = "getToken_135"]
      [] m.pc = "getToken_113" /\ m.state = "TS_FUNCNAME" ->
           [m EXCEPT !.buf = BufClear(@), !.pc = "getToken_160"]
      [] m.pc = "getToken_113" /\ m.state = "TS_DELIM" ->
           LET index == Find(delims, c) IN
           IF index < Len(delims)
           THEN TokenReturn([m EXCEPT !.data = @ + 1],
                            Token(token_t[index + 1]))
           ELSE Throw(m)
      [] m.pc = "getToken_135" -> getTokenNumber(m)
      [] m.pc = "getToken_147" -> getTokenFraction(m)
      [] m.pc = "getToken_160" ->
           IF isalpha(c)
           THEN [m EXCEPT !.buf = BufPush(@, c), !.data = @ + 1]
           ELSE LET m2 == [m EXCEPT !.buf = BufPush(@, NUL)]
                    index == Find(funcnames, CStr(m2.buf.mem, 1))
                IN  IF index < Len(funcnames)
                    THEN TokenReturn(m2, TokenI("T_FUNC", index))
                    ELSE Throw(m2)

Emit(m, tok) == [m EXCEPT !.rpn = Append(@, tok)]

EXPRLabels == {"EXPR_188", "EXPR_189", "EXPR_192", "EXPR_193"}

\* EXPR() that pushes the lookahead where it should push the saved operator
EXPRPushesLookahead(m) ==
    CASE m.pc = "EXPR_188" -> Call(m, "EXPR2_198", "EXPR_189")
      [] m.pc = "EXPR_189" ->
           IF m.token.type = "T_PLUS" \/ m.token.type = "T_MINUS"
           THEN nextToken([m EXCEPT !.loc.tt = m.token.type], "EXPR_192")
           ELSE Return(m)
      [] m.pc = "EXPR_192" -> Call(m, "EXPR2_198", "EXPR_193")
      [] m.pc = "EXPR_193" ->
           [Emit(m, Token(m.token.type)) EXCEPT !.pc = "EXPR_189"]

EXPR(m) ==
    CASE m.pc = "EXPR_188" -> Call(m, "EXPR2_198", "EXPR_189")
      [] m.pc = "EXPR_189" ->
           IF m.token.type = "T_PLUS" \/ m.token.type = "T_MINUS"
           THEN nextToken([m EXCEPT !.loc.tt = m.token.type], "EXPR_192")
           ELSE Return(m)
      [] m.pc = "EXPR_192" -> Call(m, "EXPR2_198", "EXPR_193")
      [] m.pc = "EXPR_193" -> [Emit(m, Token(m.loc.tt)) EXCEPT !.pc = "EXPR_189"]

EXPR2Labels == {"EXPR2_198", "EXPR2_199", "EXPR2_202", "EXPR2_203"}

\* EXPR2() with an if where the while is
EXPR2Once(m) ==
    CASE m.pc = "EXPR2_198" -> Call(m, "EXPR3_208", "EXPR2_199")
      [] m.pc = "EXPR2_199" ->
           IF m.token.type = "T_MUL" \/ m.token.type = "T_DIV"
           THEN nextToken([m EXCEPT !.loc.tt = m.token.type], "EXPR2_202")
           ELSE Return(m)
      [] m.pc = "EXPR2_202" -> Call(m, "EXPR3_208", "EXPR2_203")
      [] m.pc = "EXPR2_203" -> Return(Emit(m, Token(m.loc.tt)))

EXPR2(m) ==
    CASE m.pc = "EXPR2_198" -> Call(m, "EXPR3_208", "EXPR2_199")
      [] m.pc = "EXPR2_199" ->
           IF m.token.type = "T_MUL" \/ m.token.type = "T_DIV"
           THEN nextToken([m EXCEPT !.loc.tt = m.token.type], "EXPR2_202")
           ELSE Return(m)
      [] m.pc = "EXPR2_202" -> Call(m, "EXPR3_208", "EXPR2_203")
      [] m.pc = "EXPR2_203" ->
           [Emit(m, Token(m.loc.tt)) EXCEPT !.pc = "EXPR2_199"]

EXPR3Labels == {"EXPR3_208", "EXPR3_209", "EXPR3_211", "EXPR3_212"}

\* EXPR3() with the push of T_POW moved out of the if
EXPR3AlwaysPow(m) ==
    CASE m.pc = "EXPR3_208" -> Call(m, "EXPR4_217", "EXPR3_209")
      [] m.pc = "EXPR3_209" ->
           IF m.token.type = "T_POW" THEN nextToken(m, "EXPR3_211")
           ELSE Return(Emit(m, Token("T_POW")))
      [] m.pc = "EXPR3_211" -> Call(m, "EXPR4_217", "EXPR3_212")
      [] m.pc = "EXPR3_212" -> Return(Emit(m, Token("T_POW")))

\* EXPR3() with a while where the if is
EXPR3Chains(m) ==
    CASE m.pc = "EXPR3_208" -> Call(m, "EXPR4_217", "EXPR3_209")
      [] m.pc = "EXPR3_209" ->
           IF m.token.type = "T_POW" THEN nextToken(m, "EXPR3_211")
           ELSE Return(m)
      [] m.pc = "EXPR3_211" -> Call(m, "EXPR4_217", "EXPR3_212")
      [] m.pc = "EXPR3_212" ->
           [Emit(m, Token("T_POW")) EXCEPT !.pc = "EXPR3_209"]

EXPR3(m) ==
    CASE m.pc = "EXPR3_208" -> Call(m, "EXPR4_217", "EXPR3_209")
      [] m.pc = "EXPR3_209" ->
           IF m.token.type = "T_POW" THEN nextToken(m, "EXPR3_211")
           ELSE Return(m)
      [] m.pc = "EXPR3_211" -> Call(m, "EXPR4_217", "EXPR3_212")
      [] m.pc = "EXPR3_212" -> Return(Emit(m, Token("T_POW")))

EXPR4FuncLabels == {"EXPR4_220", "EXPR4_222", "EXPR4_223", "EXPR4_225"}

EXPR4NumberLabels == {"EXPR4_232", "EXPR4_238", "EXPR4_239", "EXPR4_241"}

EXPR4NegateLabels == {"EXPR4_250", "EXPR4_251"}

EXPR4Labels == {"EXPR4_217", "EXPR4_245", "EXPR4_246", "EXPR4_255"}
               \cup EXPR4FuncLabels \cup EXPR4NumberLabels
               \cup EXPR4NegateLabels

\* the T_FUNC branch with the index read from the lookahead at the push
EXPR4FuncLateIndex(m) ==
    CASE m.pc = "EXPR4_220" ->
           IF expectToken(m, "T_LPAREN") THEN nextToken(m, "EXPR4_222")
           ELSE Throw(m)
      [] m.pc = "EXPR4_222" -> Call(m, "EXPR_188", "EXPR4_223")
      [] m.pc = "EXPR4_223" ->
           IF expectToken(m, "T_RPAREN") THEN nextToken(m, "EXPR4_225")
           ELSE Throw(m)
      [] m.pc = "EXPR4_225" ->
           Return(Emit(m, TokenI("T_FUNC", m.token.intValue)))

\* the T_FUNC branch of EXPR4(), after functionIndex was read
EXPR4Func(m) ==
    CASE m.pc = "EXPR4_220" ->
           IF expectToken(m, "T_LPAREN") THEN nextToken(m, "EXPR4_222")
           ELSE Throw(m)
      [] m.pc = "EXPR4_222" -> Call(m, "EXPR_188", "EXPR4_223")
      [] m.pc = "EXPR4_223" ->
           IF expectToken(m, "T_RPAREN") THEN nextToken(m, "EXPR4_225")
           ELSE Throw(m)
      [] m.pc = "EXPR4_225" ->
           Return(Emit(m, TokenI("T_FUNC", m.loc.functionIndex)))

\* the T_NUMBER branch with T_MUL pushed before the parenthesis is parsed
EXPR4NumberMulFirst(m) ==
    CASE m.pc = "EXPR4_232" ->
           IF m.token.type = "T_X"
           THEN nextToken(Emit(Emit(m, Token("T_X")), Token("T_MUL")),
                          "EXPR4_255")
           ELSE IF m.token.type = "T_LPAREN"
           THEN nextToken(Emit(m, Token("T_MUL")), "EXPR4_238")
           ELSE Return(m)
      [] m.pc = "EXPR4_238" -> Call(m, "EXPR_188", "EXPR4_239")
      [] m.pc = "EXPR4_239" ->
           IF expectToken(m, "T_RPAREN") THEN nextToken(m, "EXPR4_241")
           ELSE Throw(m)
      [] m.pc = "EXPR4_241" -> Return(m)

\* the T_NUMBER branch with a function call taken as a factor too
EXPR4NumberBeforeCall(m) ==
    CASE m.pc = "EXPR4_232" ->
           IF m.token.type = "T_X"
           THEN nextToken(Emit(Emit(m, Token("T_X")), Token("T_MUL")),
                          "EXPR4_255")
           ELSE IF m.token.type = "T_LPAREN" THEN nextToken(m, "EXPR4_238")
           ELSE IF m.token.type = "T_FUNC"
           THEN Call(m, "EXPR4_217", "EXPR4_241")
           ELSE Return(m)
      [] m.pc = "EXPR4_238" -> Call(m, "EXPR_188", "EXPR4_239")
      [] m.pc = "EXPR4_239" ->
           IF expectToken(m, "T_RPAREN") THEN nextToken(m, "EXPR4_241")
           ELSE Throw(m)
      [] m.pc = "EXPR4_241" -> Return(Emit(m, Token("T_MUL")))

\* the T_NUMBER branch of EXPR4(), after the number was pushed
EXPR4Number(m) ==
    CASE m.pc = "EXPR4_232" ->
           IF m.token.type = "T_X"
           THEN nextToken(Emit(Emit(m, Token("T_X")), Token("T_MUL")),
                          "EXPR4_255")
           ELSE IF m.token.type = "T_LPAREN" THEN nextToken(m, "EXPR4_238")
           ELSE Return(m)
      [] m.pc = "EXPR4_238" -> Call(m, "EXPR_188", "EXPR4_239")
      [] m.pc = "EXPR4_239" ->
           IF expectToken(m, "T_RPAREN") THEN nextToken(m, "EXPR4_241")
           ELSE Throw(m)
      [] m.pc = "EXPR4_241" -> Return(Emit(m, Token("T_MUL")))

\* the T_MINUS branch with the binary operator's token pushed
EXPR4NegateAsMinus(m) ==
    CASE m.pc = "EXPR4_250" -> Call(m, "EXPR4_217", "EXPR4_251")
      [] m.pc = "EXPR4_251" -> Return(Emit(m, Token("T_MINUS")))

\* the T_MINUS branch with a negation that reaches over a following '^'
EXPR4NegatePower(m) ==
    CASE m.pc = "EXPR4_250" -> Call(m, "EXPR3_208", "EXPR4_251")
      [] m.pc = "EXPR4_251" -> Return(Emit(m, Token("T_NEGATE")))

\* the T_MINUS branch of EXPR4(), after the '-' was consumed
EXPR4Negate(m) ==
    CASE m.pc = "EXPR4_250" -> Call(m, "EXPR4_217", "EXPR4_251")
      [] m.pc = "EXPR4_251" -> Return(Emit(m, Token("T_NEGATE")))

\* EXPR4() without the final else: a token that starts no operand is left
\* for the caller
EXPR4NoThrow(m) ==
    CASE m.pc = "EXPR4_217" ->
           IF m.token.type = "T_FUNC"
           THEN nextToken([m EXCEPT !.loc.functionIndex = m.token.intValue],
                          "EXPR4_220")
           ELSE IF m.token.type = "T_X"
           THEN nextToken(Emit(m, Token("T_X")), "EXPR4_255")
           ELSE IF m.token.type = "T_NUMBER"
           THEN nextToken(Emit(m, m.token), "EXPR4_232")
           ELSE IF m.token.type = "T_LPAREN" THEN nextToken(m, "EXPR4_245")
           ELSE IF m.token.type = "T_MINUS" THEN nextToken(m, "EXPR4_250")
           ELSE Return(m)
      [] m.pc \in EXPR4FuncLabels -> EXPR4Func(m)
      [] m.pc \in EXPR4NumberLabels -> EXPR4Number(m)
      [] m.pc = "EXPR4_245" -> Call(m, "EXPR_188", "EXPR4_246")
      [] m.pc = "EXPR4_246" ->
           IF expectToken(m, "T_RPAREN") THEN nextToken(m, "EXPR4_255")
           ELSE Throw(m)
      [] m.pc \in EXPR4NegateLabels -> EXPR4Negate(m)
      [] m.pc = "EXPR4_255" -> Return(m)

EXPR4(m) ==
    CASE m.pc = "EXPR4_217" ->
           IF m.token.type = "T_FUNC"
           THEN nextToken([m EXCEPT !.loc.functionIndex = m.token.intValue],
                          "EXPR4_220")
           ELSE IF m.token.type = "T_X"
           THEN nextToken(Emit(m, Token("T_X")), "EXPR4_255")
           ELSE IF m.token.type = "T_NUMBER"
           THEN nextToken(Emit(m, m.token), "EXPR4_232")
           ELSE IF m.token.type = "T_LPAREN" THEN nextToken(m, "EXPR4_245")
           ELSE IF m.token.type = "T_MINUS" THEN nextToken(m, "EXPR4_250")
           ELSE Throw(m)
      [] m.pc \in EXPR4FuncLabels -> EXPR4Func(m)
      [] m.pc \in EXPR4NumberLabels -> EXPR4Number(m)
      [] m.pc = "EXPR4_245" -> Call(m, "EXPR_188", "EXPR4_246")
      [] m.pc = "EXPR4_246" ->
           IF expectToken(m, "T_RPAREN") THEN nextToken(m, "EXPR4_255")
           ELSE Throw(m)
      [] m.pc \in EXPR4NegateLabels -> EXPR4Negate(m)
      [] m.pc = "EXPR4_255" -> Return(m)

ParseLabels == {"parse_53", "parse_54", "parse_55", "catch"}

\* the block a new vector's reserve(80) obtains: its bytes are not initialised
ZeroBlock == [i \in 1..BufCap |-> NUL]

\* parse(s), lines 46-51, with the block the allocator hands out
parseEntry(m, s, block) ==
    [m EXCEPT !.buf = [mem |-> block, size |-> 0], !.rpn = <<>>,
              !.text = s, !.data = 1, !.stack = <<>>, !.pc = "parse_53",
              !.lexed = <<>>, !.cuts = <<>>]

\* parse() with handlers that forget rpn.clear()
parseKeepsTokens(m) ==
    CASE m.pc = "parse_53" -> nextToken(m, "parse_54")
      [] m.pc = "parse_54" -> Call(m, "EXPR_188", "parse_55")
      [] m.pc = "parse_55" ->
           IF expectToken(m, "T_END")
           THEN [m EXCEPT !.ret = TRUE, !.pc = "idle"]
           ELSE Throw(m)
      [] m.pc = "catch" -> [m EXCEPT !.ret = FALSE, !.pc = "idle"]

\* parse() that returns true with whatever token is left behind EXPR()
parseAnyRest(m) ==
    CASE m.pc = "parse_53" -> nextToken(m, "parse_54")
      [] m.pc = "parse_54" -> Call(m, "EXPR_188", "parse_55")
      [] m.pc = "parse_55" -> [m EXCEPT !.ret = TRUE, !.pc = "idle"]
      [] m.pc = "catch" ->
           [m EXCEPT !.rpn = <<>>, !.ret = FALSE, !.pc = "idle"]

\* parse(s), the try block and the handlers
parse(m) ==
    CASE m.pc = "parse_53" -> nextToken(m, "parse_54")
      [] m.pc = "parse_54" -> Call(m, "EXPR_188", "parse_55")
      [] m.pc = "parse_55" ->
           IF expectToken(m, "T_END")
           THEN [m EXCEPT !.ret = TRUE, !.pc = "idle"]
           ELSE Throw(m)
      [] m.pc = "catch" ->
           [m EXCEPT !.rpn = <<>>, !.ret = FALSE, !.pc = "idle"]

\* one step of the running parse
StepOf(m) ==
    CASE m.pc \in GetTokenLabels -> getToken(m)
      [] m.pc \in EXPRLabels -> EXPR(m)
      [] m.pc \in EXPR2Labels -> EXPR2(m)
      [] m.pc \in EXPR3Labels -> EXPR3(m)
      [] m.pc \in EXPR4Labels -> EXPR4(m)
      [] m.pc \in ParseLabels -> parse(m)

\* a caller that asks for token after token, until T_END or a throw
LexStep(m) ==
    IF m.pc \in GetTokenLabels THEN getToken(m) ELSE nextToken(m, "lex")

\* where a run ends: at the return of parse(), at the handler that catches
\* a throw, or when the last token was lexed
Done(m, upto) ==
    CASE upto = "return" -> m.pc = "idle"
      [] upto = "handler" -> m.pc = "idle" \/ m.pc = "catch"
      [] upto = "tokens" ->
           m.pc = "catch" \/ (m.pc = "lex" /\ m.token.type = "T_END")

Advance(m, upto) ==
    IF Done(m, upto) THEN m
    ELSE IF upto = "tokens" THEN LexStep(m) ELSE StepOf(m)

\* Advance applied 4^k times, each result computed before the next
\* application starts
RECURSIVE Steps(_, _, _)
Steps(m, upto, k) ==
    IF k = 0 THEN Advance(m, upto)
    ELSE CHOOSE r \in {IF Done(d, upto) THEN d ELSE Steps(d, upto, k - 1) :
                       d \in
                       {IF Done(c, upto) THEN c ELSE Steps(c, upto, k - 1) :
                       c \in
                       {IF Done(b, upto) THEN b ELSE Steps(b, upto, k - 1) :
                       b \in {Steps(m, upto, k - 1)}}}} : TRUE

\* 4^4 steps: no formula here takes as many
Steps256(m, upto) == Steps(m, upto, 4)

\* the running parse, to its return
RunParse(m) == Steps256(m, "return")

----------------------------------------------------------------------------
(* evaluate *)

\* what a read of an empty stack's top yields (undefined behaviour)
Garbage == Sym("garbage", <<>>)

Top(st) == IF st.nums = <<>> THEN Garbage ELSE st.nums[Len(st.nums)]

\* nums.pop(); on an empty stack it is undefined behaviour, recorded in ub
Pop(st) ==
    IF st.nums = <<>> THEN [st EXCEPT !.ub = TRUE]
    ELSE [st EXCEPT !.nums = SubSeq(@, 1, Len(@) - 1)]

Push(st, v) == [st EXCEPT !.nums = Append(@, v)]

\* the body of evaluate()'s loop for the token t
EvalToken(st, t, x) ==
    IF t.type = "T_NUMBER" THEN Push(st, t.realValue)
    ELSE IF t.type = "T_X" THEN Push(st, x)
    ELSE LET op2 == Top(st)
             s1 == Pop(st)
             binary == t.type # "T_NEGATE" /\ t.type # "T_FUNC"
             op1 == IF binary THEN Top(s1) ELSE Garbage
             s2 == IF binary THEN Pop(s1) ELSE s1
         IN  CASE t.type = "T_PLUS" -> Push(s2, Add(op1, op2))
               [] t.type = "T_MINUS" -> Push(s2, Sub(op1, op2))
               [] t.type = "T_MUL" -> Push(s2, Mul(op1, op2))
               [] t.type = "T_DIV" -> Push(s2, Div(op1, op2))
               [] t.type = "T_POW" -> Push(s2, Pow(op1, op2))
               [] t.type = "T_NEGATE" -> Push(s2, Neg(op2))
               [] t.type = "T_FUNC" -> Push(s2, functions(t.intValue, op2))
               [] OTHER -> s2

RECURSIVE EvalLoop(_, _, _, _)
EvalLoop(r, x, i, st) ==
    IF i > Len(r) THEN st
    ELSE EvalLoop(r, x, i + 1, EvalToken(st, r[i], x))

\* evaluate(x) on the program r: the value returned, the stack left, and
\* whether an empty stack was read or popped on the way
evaluate(r, x) ==
    IF Len(r) = 0 THEN [value |-> Num(0), nums |-> <<>>, ub |-> FALSE]
    ELSE LET st == EvalLoop(r, x, 1, [nums |-> <<>>, ub |-> FALSE])
         IN  [value |-> Top(st), nums |-> st.nums,
              ub |-> st.ub \/ st.nums = <<>>]

----------------------------------------------------------------------------
(* The parser object and its two public calls *)

\* the machine of the current state
M == [text |-> text, data |-> data, token |-> token, rpn |-> rpn,
      buf |-> buf, pc |-> pc, stack |-> stack, loc |-> loc,
      state |-> state, n |-> n, ret |-> ret, lexed |-> lexed,
      cuts |-> cuts]

Becomes(m) ==
    /\ text' = m.text /\ data' = m.data /\ token' = m.token
    /\ rpn' = m.rpn /\ buf' = m.buf /\ pc' = m.pc /\ stack' = m.stack
    /\ loc' = m.loc /\ state' = m.state /\ n' = m.n /\ ret' = m.ret
    /\ lexed' = m.lexed /\ cuts' = m.cuts

\* a parser before its first call; token and the locals hold nothing yet
Fresh == [text |-> <<>>, data |-> 1, token |-> Token("T_END"), rpn |-> <<>>,
          buf |-> [mem |-> ZeroBlock, size |-> 0], pc |-> "idle",
          stack |-> <<>>, loc |-> [tt |-> "T_END", functionIndex |-> 0],
          state |-> "TS_INITIAL", n |-> 0, ret |-> FALSE, lexed |-> <<>>,
          cuts |-> <<>>]

\* the byte patterns an uninitialised block is modelled with
JunkBytes == {NUL, "7"}

\* the blocks reserve(80) can return to a parser whose last block was old:
\* memory holding one byte pattern, or the block just freed, bytes intact
Blocks(old) == {[i \in 1..BufCap |-> b] : b \in JunkBytes} \cup {old}

\* the values evaluate() is called with
Xs == {Num(2), Num(5)}

\* the number of evaluate() calls between two parse() calls
MaxCalls == 3

\* the strings parse() is called with, one call after another
Inputs ==
    { <<"x">>, <<"x", "+", "1">>, <<"2", "+">>, <<"2", "(", "x", "+", "1">>,
      <<"1", ".", "2", "5", "+", "1", ".", "5">>,
      <<"1", ".", "5", "*", "x">>, <<"s", "i", "n", "(", "x">>,
      <<"f", "o", "o", "(", "x", ")">> }

Init ==
    /\ text = Fresh.text /\ data = Fresh.data /\ token = Fresh.token
    /\ rpn = Fresh.rpn /\ buf = Fresh.buf /\ pc = Fresh.pc
    /\ stack = Fresh.stack /\ loc = Fresh.loc /\ state = Fresh.state
    /\ n = Fresh.n /\ ret = Fresh.ret /\ lexed = Fresh.lexed
    /\ cuts = Fresh.cuts /\ tick = 0
    /\ result = Num(0) /\ op = "new" /\ arg = Num(0) /\ calls = <<>>
    /\ hist = [prevRet |-> FALSE, emitted |-> 0, compiled |-> <<>>,
               block |-> ZeroBlock]

\* the running parse, up to its return or to the handler that catches a throw
RunToHandler(m) == Steps256(m, "handler")

\* bool parse(const string &s), as one call.  hist keeps what the program
\* does not: the previous call's return value, the number of tokens that
\* were in rpn when the try block was left, the rpn the call returned with,
\* and the block its buf was given
Parse(s, block) ==
    /\ pc = "idle"
    /\ LET h == RunToHandler(parseEntry(M, s, block))
           m == RunParse(h)
       IN  /\ Becomes(m)
           /\ hist' = [prevRet |-> ret, emitted |-> Len(h.rpn),
                       compiled |-> m.rpn, block |-> block]
    /\ op' = "parse" /\ calls' = <<>> /\ result' = Num(0) /\ arg' = Num(0)
    /\ UNCHANGED tick

\* evaluate() that consumes the program it runs
EvaluateConsumes(x) ==
    /\ pc = "idle" /\ Len(calls) < MaxCalls
    /\ result' = evaluate(rpn, x).value
    /\ op' = "evaluate" /\ arg' = x
    /\ calls' = Append(calls, <<x, result'>>)
    /\ rpn' = <<>>
    /\ UNCHANGED <<text, data, token, buf, pc, stack, loc, state, n, ret,
                   lexed, cuts, tick, hist>>

\* double evaluate(double x) const
Evaluate(x) ==
    /\ pc = "idle" /\ Len(calls) < MaxCalls
    /\ result' = evaluate(rpn, x).value
    /\ op' = "evaluate" /\ arg' = x
    /\ calls' = Append(calls, <<x, result'>>)
    /\ UNCHANGED <<text, data, token, rpn, buf, pc, stack, loc, state, n,
                   ret, lexed, cuts, tick, hist>>

Next ==
    \/ \E s \in Inputs, block \in Blocks(buf.mem) : Parse(s, block)
    \/ \E x \in Xs : Evaluate(x)

Spec == Init /\ [][Next]_vars

----------------------------------------------------------------------------
(* One parse of a new parser, then one evaluation: the formulas it is given *)

\* the longest formula made of arbitrary lexemes
MaxLex == 3

Lexemes == { <<"x">>, <<"2">>, <<"1", ".", "5">>, <<"s", "i", "n">>, <<"+">>,
             <<"-">>, <<"*">>, <<"/">>, <<"^">>, <<"(">>, <<")">>, <<" ">> }

RECURSIVE LexemeStrings(_)
LexemeStrings(k) ==
    IF k = 0 THEN {<<>>}
    ELSE LET shorter == LexemeStrings(k - 1)
         IN  shorter \cup {s \o l : s \in shorter, l \in Lexemes}

Operands == { <<"x">>, <<"2">>, <<"3">>, <<"1", ".", "5">> }

Integers_ == { <<"2">>, <<"3">>, <<"4">> }

Decimals == { <<"1", ".", "5">>, <<"1", ".", "2", "5">>, <<"0", ".", "5">>,
              <<"2", ".", "1", "2", "5">>, <<"1", "0", ".", "7", "5">> }

BinOps == { <<"+">>, <<"-">>, <<"*">>, <<"/">> }

FuncNames == {funcnames[i] : i \in 1..Len(funcnames)}

SmallExprs == { <<"x">>, <<"x", "+", "1">>, <<"2", "*", "x">>, <<"3", "x">>,
                <<"-", "x">>, <<"x", "^", "2">>, <<"2", "(", "x", ")">>,
                <<"s", "i", "n", "(", "x", ")">>, <<"1", ".", "5">> }

\* a op b op c
Triples ==
    {a \o o1 \o b \o o2 \o c :
        a \in Operands, b \in Operands, c \in Operands,
        o1 \in BinOps, o2 \in BinOps}

\* formulas with two or three '^'
Powers ==
    LET P == <<"^">>  L == <<"(">>  R == <<")">>  N == <<"-">> IN
    UNION { { a \o P \o b \o P \o c,
              L \o a \o P \o b \o R \o P \o c,
              a \o P \o L \o b \o P \o c \o R,
              a \o P \o N \o b \o P \o c,
              a \o P \o b \o <<"x">> \o P \o c,
              a \o P \o b \o <<"*">> \o c \o P \o a,
              a \o P \o b \o N \o c \o P \o a,
              a \o P \o b \o P \o c \o P \o a,
              L \o a \o P \o b \o P \o c \o R,
              a \o <<"+">> \o L \o b \o P \o c \o R \o P \o a }
            : a \in Integers_ \cup {<<"x">>}, b \in Integers_,
              c \in Integers_ }

\* a number directly before x or before a parenthesis
Implicit ==
    {k \o <<"x">> : k \in Integers_ \cup Decimals}
    \cup {k \o <<"(">> \o e \o <<")">> :
              k \in Integers_ \cup Decimals, e \in SmallExprs}
    \cup {k \o <<"(">> \o e : k \in Integers_, e \in SmallExprs}

\* formulas with decimal literals
WithDecimals ==
    Decimals
    \cup {a \o o \o b : a \in Decimals, b \in Decimals, o \in BinOps}
    \cup {f \o <<"(", "x", ")", "+">> \o d : f \in FuncNames, d \in Decimals}
    \cup {d \o <<"*", "x">> : d \in Decimals}

\* function names with and without their parentheses
Calls ==
    {f \o <<"(">> \o e \o <<")">> : f \in FuncNames, e \in SmallExprs}
    \cup {f \o <<"(">> \o g \o <<"(">> \o e \o <<")", ")">> :
              f \in FuncNames, g \in FuncNames, e \in {<<"x">>, <<"3", "x">>}}
    \cup {f \o e : f \in FuncNames, e \in SmallExprs}
    \cup {f \o <<"(">> \o e : f \in FuncNames, e \in SmallExprs}
    \cup {<<"2", "+">> \o f \o <<"(", "x", ")", "*", "3">> : f \in FuncNames}

\* the formulas the documentation of the parser names
Examples ==
    { <<"x">>, <<"x", "+", "1">>, <<"2", "+">>, <<"3", "+", "+", "4">>,
      <<"1", ".", "2", "5", "+", "1", ".", "5">>,
      <<"1", ".", "5", "*", "x">>, <<"3", "x">>,
      <<"2", "(", "x", "+", "1", ")">>, <<"2", "+", "3", "*", "4">>,
      <<"2", "^", "3">>, <<"2", "^", "3", "^", "4">>,
      <<"2", "^", "(", "3", "^", "4", ")">>,
      <<"(", "2", "^", "3", ")", "^", "4">>,
      <<"s", "i", "n", "(", "c", "o", "s", "(", "x", ")", ")">>,
      <<"s", "i", "n", " ", "x">>, <<"f", "o", "o", "(", "x", ")">>,
      <<"5", "-", "3", "-", "1">>, <<"8", "/", "4", "/", "2">>,
      <<"l", "n", "(", "x", ")", "+", "1", ".", "5">>,
      <<"(", "x", "+", "1">>, <<"x", ")">>, <<"1", ".">>,
      <<"-", "c", "o", "s", "(", "x", ")">>, <<"-", "-", "x">>,
      <<" ", "3", " ", "x">>, <<"3", " ", "(", "x", "+", "1", ")">>,
      <<"3", "s", "i", "n", "(", "x", ")">>, <<"3", " ", "4">>, <<"x", "x">>,
      <<"x", "2">>, <<"x", "(", "x", "+", "1", ")">>,
      <<"(", "x", ")", "(", "x", ")">>, <<"2", "x", "(", "3", ")">>,
      <<"2", "(", "x", ")", "x">>, <<"1", ".", "x">>, <<"1", ".", " ", "5">>,
      <<".", "5">>, <<"1", ".", "5", ".", "2">>, <<"3", "x", "^", "2">>,
      <<"-", "x", "^", "2">>, <<"2", "^", "3", "x">>,
      <<"2", " ", "+", " ", "3", " ", "*", " ", "4", " ">>,
      <<"3", " ", "x">>, <<"3", "(", "x", "+", "1", ")">> }

\* the operands EXPR4 accepts without a leading '-'
Units == { <<"x">>, <<"2">>, <<"1", ".", "5">>, <<"3", "x">>,
           <<"2", "(", "x", ")">>, <<"c", "o", "s", "(", "x", ")">>,
           <<"(", "x", "+", "1", ")">> }

\* the longest run of leading minuses
MaxNeg == 3

RECURSIVE Minuses(_)
Minuses(k) == IF k = 0 THEN <<>> ELSE <<"-">> \o Minuses(k - 1)

\* an operand behind one or more minuses, alone and as a right operand
Negated ==
    {Minuses(k) \o u : k \in 1..MaxNeg, u \in Units}
    \cup {<<"x">> \o o \o Minuses(k) \o u :
              k \in 1..MaxNeg, u \in Units, o \in BinOps \cup {<<"^">>}}

\* letter runs that are no function name
UnknownNames ==
    { <<"f", "o", "o">>, <<"s", "i">>, <<"s", "i", "n", "n">>,
      <<"s", "i", "n", "x">>, <<"c", "o", "s", "X">>, <<"a", "r", "c">>,
      <<"a", "r", "c", "s", "i", "n", "s">>, <<"l">>, <<"t", "a", "n">>,
      <<"l", "o", "g">>, <<"a", "b", "s", "a", "b", "s">> }

\* a call of an unknown name, where a call of a function is accepted
Unknown ==
    {p \o w \o <<"(", "x", ")">> \o q :
        p \in {<<>>, <<"2", "*">>, <<"-">>, <<"c", "o", "s", "(">>},
        w \in UnknownNames, q \in {<<>>, <<")">>, <<"+", "1">>}}

\* a binary operator without its right operand
Dangling ==
    LET Ops == BinOps \cup {<<"^">>} IN
    {a \o o1 \o b \o o2 \o t :
        a \in Operands, b \in Operands, o1 \in Ops, o2 \in Ops,
        t \in {<<>>, <<")">>, <<"+", "x">>, <<"*", "x">>, <<"/", "x">>,
               <<"^", "x">>}}
    \cup {<<"(">> \o a \o o1 \o b \o o2 \o <<")">> :
              a \in Operands, b \in Operands, o1 \in Ops, o2 \in Ops}

\* parentheses opened and closed around an expression, evenly or not
Parenthesised ==
    {p \o e \o q :
        p \in {<<>>, <<"(">>, <<"(", "(">>, <<"2", "(">>, <<"-", "(">>,
               <<"s", "i", "n", "(">>, <<"x", "*", "(">>},
        e \in SmallExprs,
        q \in {<<>>, <<")">>, <<")", ")">>, <<")", "+", "1">>,
               <<")", "*", "(", "x">>, <<")", "^", "(", "x", ")">>}}

\* an operand, or a negated operand
SignedUnits == Units \cup {<<"-">> \o u : u \in Units}

\* a power of two of them
UnitPowers == {a \o <<"^">> \o b : a \in SignedUnits, b \in SignedUnits}

\* two operands side by side, directly or with a space between them
Juxtaposed ==
    {p[1] \o a \o s \o b \o p[2] :
        a \in Units, b \in Units, s \in {<<>>, <<" ">>},
        p \in { <<<<>>, <<>>>>, << <<"x", "+">>, <<>> >>,
                << <<"(">>, <<")">> >>, << <<"s", "i", "n", "(">>, <<")">> >>,
                << <<"-">>, <<"^", "2">> >> }}

\* a function of a sum or difference with a negated right operand
Differences ==
    {f \o <<"(">> \o a \o o \o <<"-">> \o b \o <<")">> :
        f \in FuncNames, a \in {<<"x">>, <<"2">>}, b \in {<<"x">>, <<"2">>},
        o \in {<<"+">>, <<"-">>}}

\* literals with a point where none can stand
BadDecimals ==
    { <<"1", ".">>, <<".", "5">>, <<"1", ".", "5", ".", "2">>,
      <<"1", ".", ".", "5">>, <<"1", ".", "5", ".">>, <<"1", " ", ".", "5">>,
      <<"1", ".", " ", "5">>, <<"1", ".", "x">>,
      <<"1", "2", ".", "3", "4", ".", "5">>,
      <<".">>, <<"2", ".", "(", "x", ")">>, <<"x", ".", "5">>,
      <<"0", ".", "5", "x", ".", "5">>, <<"1", ".", "5", " ", ".", "2">> }

\* such a literal where an operand is accepted
Malformed ==
    {p \o d \o q :
        p \in {<<>>, <<"x", "+">>, <<"(">>, <<"-">>, <<"2", "*">>,
               <<"s", "i", "n", "(">>, <<"1", ".", "5", "+">>},
        d \in BadDecimals,
        q \in {<<>>, <<"+", "x">>, <<")">>, <<"*", "2">>}}

Formulas ==
    LexemeStrings(MaxLex) \cup Examples \cup Triples \cup Powers
    \cup Implicit \cup WithDecimals \cup Calls \cup Negated \cup Unknown
    \cup Dangling \cup Parenthesised \cup Malformed \cup Differences
    \cup UnitPowers \cup Juxtaposed

NextP ==
    \/ /\ op = "new"
       /\ \E s \in Formulas, block \in Blocks(buf.mem) : Parse(s, block)
    \/ /\ op = "parse"
       /\ \E x \in Xs : Evaluate(x)

PSpec == Init /\ [][NextP]_vars

----------------------------------------------------------------------------
(* The same parse, step by step *)

Ghosts == <<result, op, arg, calls, hist>>

\* the call of parse(s) on a new parser: lines 46-51
ParseCall(s, block) ==
    /\ Becomes(parseEntry(M, s, block))
    /\ op' = "parse"
    /\ hist' = [prevRet |-> ret, emitted |-> 0, compiled |-> <<>>,
                block |-> block]
    /\ UNCHANGED <<result, arg, calls, tick>>

GetTokenStep ==
    /\ pc \in GetTokenLabels
    /\ Becomes(getToken(M))
    /\ tick' = 1 - tick
    /\ UNCHANGED Ghosts

EXPRStep ==
    /\ pc \in EXPRLabels
    /\ Becomes(EXPR(M))
    /\ tick' = 1 - tick
    /\ UNCHANGED Ghosts

EXPR2Step ==
    /\ pc \in EXPR2Labels
    /\ Becomes(EXPR2(M))
    /\ tick' = 1 - tick
    /\ UNCHANGED Ghosts

EXPR3Step ==
    /\ pc \in EXPR3Labels
    /\ Becomes(EXPR3(M))
    /\ tick' = 1 - tick
    /\ UNCHANGED Ghosts

EXPR4Step ==
    /\ pc \in EXPR4Labels
    /\ Becomes(EXPR4(M))
    /\ tick' = 1 - tick
    /\ UNCHANGED Ghosts

\* the try block and the handlers of parse(); at the return hist.emitted
\* keeps the number of tokens that were in rpn when the try block was left
ParseStep ==
    /\ pc \in ParseLabels
    /\ Becomes(parse(M))
    /\ hist' = IF parse(M).pc = "idle"
               THEN [hist EXCEPT !.emitted = Len(rpn),
                                 !.compiled = parse(M).rpn]
               ELSE hist
    /\ tick' = 1 - tick
    /\ UNCHANGED <<result, op, arg, calls>>

Step ==
    \/ GetTokenStep
    \/ EXPRStep
    \/ EXPR2Step
    \/ EXPR3Step
    \/ EXPR4Step
    \/ ParseStep

NextS ==
    \/ /\ pc = "idle" /\ op = "new"
       /\ \E s \in Formulas, block \in Blocks(buf.mem) : ParseCall(s, block)
    \/ Step

\* where a running parse can stand: at each of them Step is enabled
Labels == GetTokenLabels \cup EXPRLabels \cup EXPR2Labels \cup EXPR3Labels
          \cup EXPR4Labels \cup ParseLabels

\* a step of a running parse, seen by tick alone: every action of Step
\* flips tick and nothing else does
Running == pc # "idle" /\ tick' = 1 - tick

\* parse() is an ordinary synchronous call: a parse that is running takes
\* its next step
StepSpec == Init /\ [][NextS]_vars /\ WF_tick(Running)

----------------------------------------------------------------------------
(* One parse of a new parser: the formulas whitespace is inserted into *)

SpaceTexts ==
    Examples \cup Implicit \cup WithDecimals \cup Calls \cup Negated
    \cup Juxtaposed \cup UnitPowers \cup Triples

NextW ==
    \/ /\ op = "new"
       /\ \E s \in SpaceTexts, block \in Blocks(buf.mem) : Parse(s, block)
    \/ /\ op = "parse"
       /\ \E x \in Xs : Evaluate(x)

WSpec == Init /\ [][NextW]_vars

----------------------------------------------------------------------------
(* The lexer alone: a caller that requests token after token *)

\* the number of T_END tokens a caller requests
MaxEnds == 3

\* the T_END tokens the lexer has returned
Ends == Cardinality({i \in 1..Len(lexed) : lexed[i].type = "T_END"})

\* the longest text made of arbitrary characters
MaxChars == 3

\* a character of each class the lexer tells apart, '?' being no delimiter
LexChars == {"x", "1", ".", "l", "n", "+", " ", "?"}

RECURSIVE CharStrings(_)
CharStrings(k) ==
    IF k = 0 THEN {<<>>}
    ELSE LET shorter == CharStrings(k - 1)
         IN  shorter \cup {Append(s, c) : s \in shorter, c \in LexChars}

\* the texts the lexer is run on
LexTexts ==
    CharStrings(MaxChars) \cup Examples \cup WithDecimals \cup Unknown

\* data = s.c_str() on a new parser, as in parse(s), lines 46-51
LexCall(s, block) ==
    /\ pc = "idle" /\ op = "new"
    /\ Becomes([parseEntry(M, s, block) EXCEPT !.pc = "lex"])
    /\ op' = "lex"
    /\ hist' = [prevRet |-> ret, emitted |-> 0, compiled |-> <<>>,
                block |-> block]
    /\ UNCHANGED <<result, arg, calls, tick>>

\* nextToken(), whatever the last token was
Request ==
    /\ pc = "lex" /\ Ends < MaxEnds
    /\ Becomes(nextToken(M, "lex"))
    /\ UNCHANGED <<tick, result, op, arg, calls, hist>>

NextL ==
    \/ \E s \in LexTexts, block \in Blocks(buf.mem) : LexCall(s, block)
    \/ Request
    \/ GetTokenStep

LexSpec == Init /\ [][NextL]_vars

----------------------------------------------------------------------------
(* Properties *)

Str_x1 == <<"x", "+", "1">>

\* the rpn a new parser can return with for the formula s
FreshPrograms(s) ==
    {RunParse(parseEntry(Fresh, s, b)).rpn : b \in Blocks(ZeroBlock)}

\* C1: when parse() returned false, rpn is empty -- also after an earlier
\* successful parse and when the failing parse had emitted tokens -- and
\* evaluate(x) returns 0.0 for every x.
C1_FailedParseClears ==
    (op # "new" /\ ~ret) =>
        /\ rpn = <<>>
        /\ \A x \in Xs \cup {Num(0), Num(3)} : evaluate(rpn, x).value = Num(0)
        /\ \A i \in 1..Len(calls) : calls[i][2] = Num(0)

C1_Witness ==
    /\ op = "evaluate" /\ ~ret /\ hist.prevRet /\ hist.emitted >= 2
    /\ result = Num(0) /\ arg = Num(5)

\* C2: after any sequence of parse() calls, rpn is the one the last call
\* would produce on a new parser: nothing of an earlier formula remains;
\* parse("x"), parse("x+1"), evaluate(5) returns 6.
C2_ReparseLikeFresh ==
    (op = "parse") =>
        /\ rpn \in FreshPrograms(text)
        /\ (text = Str_x1 => evaluate(rpn, Num(5)).value = Num(6))

\* C3: for every rpn a successful parse leaves, evaluate() never reads or
\* pops an empty stack and ends with exactly one value on the stack.
C3_StackBalanced ==
    (op # "new" /\ ret) =>
        \A x \in Xs \cup {Num(0)} :
            LET e == evaluate(rpn, x)
            IN  ~e.ub /\ Len(e.nums) = 1 /\ e.value = e.nums[1]

C3_Witness ==
    /\ op = "evaluate" /\ ret /\ Len(rpn) >= 6
    /\ \E i \in 1..Len(rpn) : rpn[i].type = "T_FUNC"
    /\ \E i \in 1..Len(rpn) : rpn[i].type = "T_MUL"
    /\ \E i \in 1..Len(rpn) : rpn[i].type = "T_PLUS"

\* C4: evaluate() leaves rpn as parse() returned it, and two evaluate()
\* calls with the same x since the last parse returned the same result,
\* whatever calls with other x lie between them.
C4_EvaluateRepeats ==
    /\ pc = "idle" => rpn = hist.compiled
    /\ \A i, j \in 1..Len(calls) :
           calls[i][1] = calls[j][1] => calls[i][2] = calls[j][2]

C4_Witness ==
    /\ ret /\ Len(calls) = 3
    /\ calls[1][1] = calls[3][1] /\ calls[2][1] # calls[1][1]
    /\ calls[1][2] # calls[2][2]

----------------------------------------------------------------------------
(* What the token sequence of a formula says about its program *)

Types(ts) == [i \in 1..Len(ts) |-> ts[i].type]

\* the tokens of one type, in their order
OfType(ts, t) == SelectSeq(ts, LAMBDA k : k.type = t)

\* a program without the values of its numbers
Shape(r) == [i \in 1..Len(r) |-> [r[i] EXCEPT !.realValue = Num(0)]]

\* the programs of s alone, without the values of their numbers
FreshShapes(s) == {Shape(r) : r \in FreshPrograms(s)}

\* open parentheses after token i
Depth(ts, i) ==
    Cardinality({j \in 1..i : ts[j].type = "T_LPAREN"})
    - Cardinality({j \in 1..i : ts[j].type = "T_RPAREN"})

\* the ')' that closes the '(' at p; 0 if there is none
Closer(ts, p) ==
    LET cs == {q \in (p + 1)..Len(ts) :
                  ts[q].type = "T_RPAREN" /\ Depth(ts, q) = Depth(ts, p) - 1}
    IN  IF cs = {} THEN 0 ELSE CHOOSE q \in cs : \A r \in cs : q <= r

TypeAt(ts, i) == IF i \in 1..Len(ts) THEN ts[i].type ELSE "T_END"

\* the last token of the operand that starts at token i; 0 if none does
OperandEnd(ts, i) ==
    LET s == CHOOSE j \in i..(Len(ts) + 1) :
                 /\ TypeAt(ts, j) # "T_MINUS"
                 /\ \A k \in i..(j - 1) : TypeAt(ts, k) = "T_MINUS"
    IN  CASE TypeAt(ts, s) = "T_X" -> s
          [] TypeAt(ts, s) = "T_NUMBER" ->
               IF TypeAt(ts, s + 1) = "T_X" THEN s + 1
               ELSE IF TypeAt(ts, s + 1) = "T_LPAREN" THEN Closer(ts, s + 1)
               ELSE s
          [] TypeAt(ts, s) = "T_FUNC" ->
               IF TypeAt(ts, s + 1) = "T_LPAREN" THEN Closer(ts, s + 1)
               ELSE 0
          [] TypeAt(ts, s) = "T_LPAREN" -> Closer(ts, s)
          [] OTHER -> 0

\* a '^' whose right operand is directly followed by another '^'
ChainedPow(ts) ==
    \E i \in 1..Len(ts) :
        /\ ts[i].type = "T_POW"
        /\ LET e == OperandEnd(ts, i + 1)
           IN  e # 0 /\ TypeAt(ts, e + 1) = "T_POW"

IsOperand(t) == t.type \in {"T_NUMBER", "T_X"}

BinOpTypes == {"T_PLUS", "T_MINUS", "T_MUL", "T_DIV"}

Multiplicative(t) == t.type \in {"T_MUL", "T_DIV"}

\* the value the digits of a literal I or I.F denote
LiteralValue(d) ==
    LET dot == Find(d, ".")
        ip == SubSeq(d, 1, dot)
        fp == SubSeq(d, dot + 2, Len(d))
    IN  Rat(DigitsValue(ip) * IntPow(10, Len(fp)) + DigitsValue(fp),
            IntPow(10, Len(fp)))

\* a parse has returned
Parsed == op # "new" /\ pc = "idle"

EvalAt(x) == evaluate(rpn, x).value

\* the tokens of s, lexed through a new buf with this block
AllTokens(s, block) ==
    Steps256(nextToken(parseEntry(Fresh, s, block), "lex"), "tokens").lexed

\* all tokens of the text parse() was called with
Tokens == AllTokens(text, hist.block)

\* C5: every parse that was called returns: the lexer's loops and the
\* grammar's recursion come to an end on every text; a lexer iteration that
\* stays in its loop has moved the cursor one character on; the rules never
\* nest deeper than four frames per token read; and evaluate() of a program
\* that parse() accepted ends with a value, no pop of an empty stack.
C5_Terminates ==
    /\ (pc # "idle") ~> (pc = "idle")
    /\ [][(pc \in GetTokenLabels /\ pc' = pc /\ state' = state)
              => data' = data + 1]_vars
    /\ [](Len(stack) <= 4 * Len(lexed) + 1)
    /\ [](pc = "idle" \/ pc \in Labels)
    /\ [](Parsed /\ ret =>
             \A x \in Xs : LET e == evaluate(rpn, x)
                           IN  ~e.ub /\ Len(e.nums) = 1)

C5_Witness ==
    /\ Parsed /\ ret /\ Len(rpn) >= 5
    /\ \E i \in 1..Len(text) : text[i] = " "

Str_2p3m4 == <<"2", "+", "3", "*", "4">>

Str_2pow3 == <<"2", "^", "3">>

\* C6: a formula of three operands and two binary operators, a o1 b o2 c,
\* is accepted and compiles to a b c o2 o1 when o2 is * or / and o1 is + or
\* -, and to a b o1 c o2 otherwise (left to right); "2+3*4" evaluates to 14
\* and "2^3" to 8 for every x.
C6_Precedence ==
    Parsed =>
        /\ LET ts == Tokens IN
           ( /\ Len(ts) = 6 /\ ts[6].type = "T_END"
             /\ IsOperand(ts[1]) /\ ts[2].type \in BinOpTypes
             /\ IsOperand(ts[3]) /\ ts[4].type \in BinOpTypes
             /\ IsOperand(ts[5]) )
           => /\ ret
              /\ rpn = IF Multiplicative(ts[4]) /\ ~Multiplicative(ts[2])
                       THEN <<ts[1], ts[3], ts[5], ts[4], ts[2]>>
                       ELSE <<ts[1], ts[3], ts[2], ts[5], ts[4]>>
        /\ text = Str_2p3m4 =>
               ret /\ \A x \in Xs \cup {Num(0)} : EvalAt(x) = Num(14)
        /\ text = Str_2pow3 =>
               ret /\ \A x \in Xs \cup {Num(0)} : EvalAt(x) = Num(8)

C6_Witness ==
    /\ op = "evaluate" /\ text = Str_2p3m4 /\ result = Num(14)
    /\ Types(rpn) = <<"T_NUMBER", "T_NUMBER", "T_NUMBER", "T_MUL", "T_PLUS">>

Str_3x == <<"3", "x">>

Str_2_x1 == <<"2", "(", "x", "+", "1", ")">>

\* C7: NUMBER X compiles to NUMBER, X, MUL; NUMBER ( EXPR ) is accepted and
\* compiles to the NUMBER, then the program of EXPR, then MUL, the numbers
\* of the program being the numbers lexed, in their order; "3x" is 6 at
\* x = 2 and "2(x+1)" is 8 at x = 3.
C7_ImplicitMultiplication ==
    Parsed =>
        /\ Types(Tokens) = <<"T_NUMBER", "T_X", "T_END">> =>
               ret /\ rpn = <<Tokens[1], Token("T_X"), Token("T_MUL")>>
        /\ \A k \in Integers_ \cup Decimals, e \in SmallExprs :
               text = k \o <<"(">> \o e \o <<")">> =>
                   /\ ret
                   /\ rpn[1] = Tokens[1]
                   /\ rpn[Len(rpn)] = Token("T_MUL")
                   /\ Shape(SubSeq(rpn, 2, Len(rpn) - 1)) \in FreshShapes(e)
                   /\ OfType(rpn, "T_NUMBER") = OfType(Tokens, "T_NUMBER")
        /\ text = Str_3x => ret /\ EvalAt(Num(2)) = Num(6)
        /\ text = Str_2_x1 => ret /\ EvalAt(Num(3)) = Num(8)

C7_Witness ==
    /\ op = "evaluate" /\ ret /\ Len(rpn) >= 5
    /\ LET ts == Tokens IN
       /\ Types(SubSeq(ts, 1, 2)) = <<"T_NUMBER", "T_LPAREN">>
       /\ ts[Len(ts) - 1].type = "T_RPAREN"
    /\ rpn[Len(rpn)].type = "T_MUL" /\ rpn[Len(rpn) - 1].type = "T_PLUS"

Str_2pow3pow4 == <<"2", "^", "3", "^", "4">>

Str_2pow_3pow4 == <<"2", "^", "(", "3", "^", "4", ")">>

Str_2pow3_pow4 == <<"(", "2", "^", "3", ")", "^", "4">>

\* C8: parse() returns false when the right operand of a '^' is directly
\* followed by another '^', as in "2^3^4"; "2^(3^4)" and "(2^3)^4" are
\* accepted.
C8_NoChainedPow ==
    Parsed =>
        /\ ChainedPow(Tokens) => ~ret
        /\ text = Str_2pow3pow4 => ~ret
        /\ text = Str_2pow_3pow4 => ret
        /\ text = Str_2pow3_pow4 => ret

C8_Witness ==
    /\ Parsed /\ ~ret /\ ChainedPow(Tokens) /\ hist.emitted >= 3
    /\ "T_LPAREN" \in {Tokens[i].type : i \in DOMAIN Tokens}

Str_125p15 == <<"1", ".", "2", "5", "+", "1", ".", "5">>

Str_15mx == <<"1", ".", "5", "*", "x">>

\* C9: a decimal literal yields the NUMBER its own digits denote -- alone,
\* after another decimal literal and after a function name -- also when the
\* block of buf came zero-filled; "1.25+1.5" is 2.75 and "1.5*x" is 3 at
\* x = 2.
C9_DecimalOwnDigits ==
    (Parsed /\ hist.block = ZeroBlock) =>
        /\ \A d \in Decimals :
               /\ text = d => ret /\ rpn = <<TokenR("T_NUMBER", LiteralValue(d))>>
               /\ \A f \in FuncNames :
                      text = f \o <<"(", "x", ")", "+">> \o d =>
                          ret /\ rpn[3] = TokenR("T_NUMBER", LiteralValue(d))
               /\ \A a \in Decimals, o \in BinOps :
                      text = a \o o \o d =>
                          /\ ret
                          /\ rpn[1] = TokenR("T_NUMBER", LiteralValue(a))
                          /\ rpn[2] = TokenR("T_NUMBER", LiteralValue(d))
        /\ text = Str_125p15 => ret /\ EvalAt(Num(2)) = Rat(11, 4)
        /\ text = Str_15mx => ret /\ EvalAt(Num(2)) = Num(3)

Str_sincosx == <<"s", "i", "n", "(", "c", "o", "s", "(", "x", ")", ")">>

\* C10: a function name that is not followed by '(' EXPR ')' makes parse()
\* return false; f(EXPR) is accepted and compiles to the program of EXPR,
\* then FUNC with the index of f in funcnames; f(g(EXPR)) ends with FUNC of
\* g, FUNC of f; "sin(cos(x))" compiles to X, FUNC(cos), FUNC(sin).
C10_FunctionCall ==
    Parsed =>
        /\ LET ts == Tokens IN
           \A i \in 1..Len(ts) :
               ts[i].type = "T_FUNC" =>
                   \/ ~ret
                   \/ /\ TypeAt(ts, i + 1) = "T_LPAREN"
                      /\ Closer(ts, i + 1) # 0
        /\ \A f \in FuncNames, e \in SmallExprs :
               text = f \o <<"(">> \o e \o <<")">> =>
                   /\ ret
                   /\ rpn[Len(rpn)] = TokenI("T_FUNC", Find(funcnames, f))
                   /\ Shape(SubSeq(rpn, 1, Len(rpn) - 1)) \in FreshShapes(e)
                   /\ OfType(rpn, "T_NUMBER") = OfType(Tokens, "T_NUMBER")
        /\ \A f \in FuncNames, g \in FuncNames :
               text = f \o <<"(">> \o g \o <<"(", "x", ")", ")">> =>
                   /\ ret
                   /\ rpn = <<Token("T_X"), TokenI("T_FUNC", Find(funcnames, g)),
                              TokenI("T_FUNC", Find(funcnames, f))>>
        /\ text = Str_sincosx =>
               rpn = <<Token("T_X"), TokenI("T_FUNC", Find(funcnames, <<"c", "o", "s">>)),
                       TokenI("T_FUNC", Find(funcnames, <<"s", "i", "n">>))>>

C10_Witness ==
    /\ op = "evaluate" /\ ret /\ text = Str_sincosx
    /\ Types(rpn) = <<"T_X", "T_FUNC", "T_FUNC">>
    /\ rpn[2].intValue # rpn[3].intValue

Str_negcosx == <<"-", "c", "o", "s", "(", "x", ")">>

Str_negnegx == <<"-", "-", "x">>

\* a '-' where an operand starts: the first token, or the token after an
\* operator or a '('
UnaryAt(ts, i) ==
    /\ ts[i].type = "T_MINUS"
    /\ i = 1 \/ ts[i - 1].type \in BinOpTypes \cup {"T_POW", "T_LPAREN"}

CountOf(ts, t) == Cardinality({i \in 1..Len(ts) : ts[i].type = t})

\* C11: k >= 1 minuses before an operand are accepted and compile to the
\* program of the operand followed by exactly k NEGATE -- alone and as the
\* right operand of a binary operator; an accepted formula has one NEGATE
\* per '-' at operand position and one MINUS per other '-'; "--x" is
\* X, NEGATE, NEGATE and "-cos(x)" is -1 at x = 0.
C11_UnaryMinus ==
    Parsed =>
        /\ \A k \in 1..MaxNeg, u \in Units :
               /\ text = Minuses(k) \o u =>
                      /\ ret
                      /\ Len(rpn) > k
                      /\ Shape(SubSeq(rpn, 1, Len(rpn) - k)) \in FreshShapes(u)
                      /\ \A i \in (Len(rpn) - k + 1)..Len(rpn) :
                             rpn[i] = Token("T_NEGATE")
               /\ \A o \in BinOps \cup {<<"^">>} :
                      text = <<"x">> \o o \o Minuses(k) \o u =>
                          /\ ret
                          /\ Len(rpn) > k + 2
                          /\ rpn[1] = Token("T_X")
                          /\ Shape(SubSeq(rpn, 2, Len(rpn) - k - 1))
                                 \in FreshShapes(u)
                          /\ \A i \in (Len(rpn) - k)..(Len(rpn) - 1) :
                                 rpn[i] = Token("T_NEGATE")
                          /\ rpn[Len(rpn)].type \in BinOpTypes \cup {"T_POW"}
        /\ ret => LET ts == Tokens
                      unary == {i \in 1..Len(ts) : UnaryAt(ts, i)}
                  IN  /\ CountOf(rpn, "T_NEGATE") = Cardinality(unary)
                      /\ CountOf(rpn, "T_MINUS")
                             = CountOf(ts, "T_MINUS") - Cardinality(unary)
        /\ text = Str_negnegx =>
               rpn = <<Token("T_X"), Token("T_NEGATE"), Token("T_NEGATE")>>
        /\ text = Str_negcosx => ret /\ EvalAt(Num(0)) = Num(-1)

C11_Witness ==
    /\ op = "evaluate" /\ ret
    /\ \E u \in Units : text = Minuses(MaxNeg) \o u
    /\ CountOf(rpn, "T_FUNC") = 1 /\ CountOf(rpn, "T_NEGATE") = MaxNeg

Str_2p == <<"2", "+">>

Str_3pp4 == <<"3", "+", "+", "4">>

Str_foox == <<"f", "o", "o", "(", "x", ")">>

\* C12: parse() returns false for the empty text, for every text with a
\* binary operator token that is followed by the end, by ')' or by one of
\* + * / ^, and for a call of a letter run that is no function name, also
\* where a call is accepted; when the last lexer call looked up a name
\* that funcnames does not hold, the parse has failed; "2+", "3++4" and
\* "foo(x)" are rejected.
C12_MissingOperand ==
    Parsed =>
        /\ text = <<>> => ~ret
        /\ LET ts == Tokens IN
           \A i \in 1..Len(ts) :
               ( /\ ts[i].type \in BinOpTypes \cup {"T_POW"}
                 /\ TypeAt(ts, i + 1) \in {"T_END", "T_RPAREN", "T_PLUS",
                                           "T_MUL", "T_DIV", "T_POW"} )
               => ~ret
        /\ text \in Unknown => ~ret /\ rpn = <<>>
        /\ (state = "TS_FUNCNAME" /\ CStr(buf.mem, 1) \notin FuncNames) => ~ret
        /\ text \in {Str_2p, Str_3pp4, Str_foox} => ~ret

C12_Witness ==
    /\ Parsed /\ ~ret /\ hist.emitted >= 2
    /\ \E i \in 1..Len(Tokens) :
           /\ Tokens[i].type \in BinOpTypes
           /\ TypeAt(Tokens, i + 1) = "T_RPAREN"

Str_open == <<"(", "x", "+", "1">>

Str_close == <<"x", ")">>

\* the '(' of the first i characters that no ')' among them has closed
CharDepth(s, i) ==
    Cardinality({j \in 1..i : s[j] = "("})
    - Cardinality({j \in 1..i : s[j] = ")"})

\* every ')' closes a '(' that was opened before it, and none is left open
Balanced(s) ==
    /\ CharDepth(s, Len(s)) = 0
    /\ \A i \in 1..Len(s) : CharDepth(s, i) >= 0

\* C13: parse() returns false for every text whose parentheses are not
\* balanced -- a '(' that is never closed, a ')' that closes nothing --
\* whatever stands between them; "(x+1" and "x)" are rejected.
C13_UnbalancedRejected ==
    Parsed =>
        /\ ~Balanced(text) => ~ret /\ rpn = <<>>
        /\ ret => /\ Depth(Tokens, Len(Tokens)) = 0
                  /\ \A i \in 1..Len(Tokens) : Depth(Tokens, i) >= 0
        /\ text \in {Str_open, Str_close} => ~ret

C13_Witness ==
    /\ Parsed /\ ~ret /\ hist.emitted >= 3
    /\ Tokens[Len(Tokens)].type = "T_END"
    /\ CharDepth(text, Len(text)) = 1
    /\ \E i \in 1..Len(text) : text[i] = ")"

\* C14: once getToken() has returned T_END, every later request returns
\* T_END again (it does not throw) and the cursor stays on the terminator
\* of the text: no request after the end moves it.
C14_EndRepeats ==
    /\ \A i \in 1..Len(lexed) :
           lexed[i].type = "T_END" =>
               \A j \in i..Len(lexed) : lexed[j].type = "T_END"
    /\ Ends >= 1 =>
           /\ pc # "catch"
           /\ data = Len(text) + 1
           /\ CharAt(text, data) = NUL
           /\ pc = "lex" => token.type = "T_END"

C14_Witness ==
    /\ op = "lex" /\ pc = "lex" /\ Ends = MaxEnds /\ Len(lexed) >= MaxEnds + 4
    /\ text[Len(text)] = " "

\* C15: in every state of a lexer run the cursor is on a character of the
\* text or on its terminator, and no step moves it backwards: no state of
\* getToken() -- TS_INITIAL, TS_NUMBER before and behind the point,
\* TS_FUNCNAME, TS_DELIM, the throws -- moves it behind the terminator.
C15_CursorInText ==
    /\ [](data \in 1..(Len(text) + 1))
    /\ [][data' >= data]_vars
    /\ [][data' > data => data \in 1..Len(text)]_vars

C15_Witness ==
    /\ op = "lex" /\ pc = "catch" /\ state = "TS_NUMBER"
    /\ data = Len(text) + 1 /\ Len(lexed) >= 1

\* the first character of the digits that end at character i
RunStart(s, i) ==
    CHOOSE j \in 1..(i + 1) :
        /\ \A k \in j..i : isdigit(s[k])
        /\ j = 1 \/ ~isdigit(s[j - 1])

\* the '.' at character i has digits before it that follow no other '.',
\* and a digit directly behind it
WellPlacedPoint(s, i) ==
    /\ i > 1 /\ isdigit(s[i - 1])
    /\ i < Len(s) /\ isdigit(s[i + 1])
    /\ LET j == RunStart(s, i - 1) IN j = 1 \/ s[j - 1] # "."

Str_1p == <<"1", ".">>

Str_1px == <<"1", ".", "x">>

Str_1p_5 == <<"1", ".", " ", "5">>

Str_p5 == <<".", "5">>

Str_1p5p2 == <<"1", ".", "5", ".", "2">>

\* C16: parse() returns false for every text with a '.' that has no digit
\* directly behind it, no digit directly before it, or that follows the
\* fractional digits of a literal, wherever in a formula the literal
\* stands; "1.", "1.x", "1. 5", ".5" and "1.5.2" are rejected.
C16_MalformedDecimal ==
    Parsed =>
        /\ (\E i \in 1..Len(text) :
                text[i] = "." /\ ~WellPlacedPoint(text, i))
               => ~ret /\ rpn = <<>>
        /\ text \in Malformed => ~ret
        /\ text \in {Str_1p, Str_1px, Str_1p_5, Str_p5, Str_1p5p2} => ~ret

C16_Witness ==
    /\ Parsed /\ ~ret /\ hist.emitted >= 2 /\ state = "TS_DELIM"
    /\ Len(lexed) >= 3 /\ lexed[Len(lexed)].type = "T_NUMBER"
    /\ lexed[Len(lexed)].realValue.d > 1
    /\ CharAt(text, data) = "."

\* the token types evaluate() has a case for
Instructions == {"T_NUMBER", "T_X", "T_PLUS", "T_MINUS", "T_MUL", "T_DIV",
                 "T_POW", "T_NEGATE", "T_FUNC"}

\* the numbers on evaluate()'s stack before it executes token i of r
OperandsBefore(r, i, x) ==
    EvalLoop(SubSeq(r, 1, i - 1), x, 1, [nums |-> <<>>, ub |-> FALSE]).nums

\* C17: after every parse() call, accepted or not, each token of rpn has a
\* type evaluate() executes -- never T_END, T_LPAREN or T_RPAREN; a T_MINUS
\* in rpn finds two operands on the stack and there is one for each '-' of
\* the text that follows an operand; a T_FUNC carries an index of the
\* functions table, 0..9, and the other tokens carry index 0.
C17_InstructionsOnly ==
    Parsed =>
        /\ \A i \in 1..Len(rpn) :
               /\ rpn[i].type \in Instructions
               /\ rpn[i].type = "T_MINUS" =>
                      Len(OperandsBefore(rpn, i, Num(2))) >= 2
               /\ rpn[i].type = "T_FUNC" =>
                      rpn[i].intValue \in 0..(Len(funcnames) - 1)
               /\ rpn[i].type # "T_FUNC" => rpn[i].intValue = 0
        /\ Len(funcnames) = 10
        /\ ret => CountOf(rpn, "T_MINUS") =
                      Cardinality({i \in 1..Len(Tokens) :
                                      /\ Tokens[i].type = "T_MINUS"
                                      /\ ~UnaryAt(Tokens, i)})

C17_Witness ==
    /\ op = "evaluate" /\ ret
    /\ CountOf(rpn, "T_MINUS") >= 1 /\ CountOf(rpn, "T_NEGATE") >= 1
    /\ \E i \in 1..Len(rpn) : rpn[i].type = "T_FUNC" /\ rpn[i].intValue = 9

Str_3xpow2 == <<"3", "x", "^", "2">>

Str_negxpow2 == <<"-", "x", "^", "2">>

Str_2pow3x == <<"2", "^", "3", "x">>

\* the one program shape of the formula s
ShapeOf(s) == CHOOSE p \in FreshShapes(s) : TRUE

\* C18: an implicit product and a negation are complete operands of '^':
\* a^b, for a and b each a number, x, a number before x or before a
\* parenthesis, a call or a parenthesis, negated or not, compiles to the
\* program of a, the program of b, POW; "3x^2" is NUMBER(3), X, MUL,
\* NUMBER(2), POW and 36 at x = 2, "-x^2" is X, NEGATE, NUMBER(2), POW, and
\* "2^3x" is NUMBER(2), NUMBER(3), X, MUL, POW.
C18_TighterThanPow ==
    Parsed =>
        /\ \A a \in SignedUnits, b \in SignedUnits :
               text = a \o <<"^">> \o b =>
                   /\ ret
                   /\ Shape(rpn) = ShapeOf(a) \o ShapeOf(b) \o <<Token("T_POW")>>
                   /\ OfType(rpn, "T_NUMBER") = OfType(Tokens, "T_NUMBER")
        /\ text = Str_3xpow2 =>
               /\ rpn = <<TokenR("T_NUMBER", Num(3)), Token("T_X"),
                          Token("T_MUL"), TokenR("T_NUMBER", Num(2)),
                          Token("T_POW")>>
               /\ EvalAt(Num(2)) = Num(36)
        /\ text = Str_negxpow2 =>
               /\ rpn = <<Token("T_X"), Token("T_NEGATE"),
                          TokenR("T_NUMBER", Num(2)), Token("T_POW")>>
               /\ EvalAt(Num(3)) = Num(9)
        /\ text = Str_2pow3x =>
               /\ rpn = <<TokenR("T_NUMBER", Num(2)), TokenR("T_NUMBER", Num(3)),
                          Token("T_X"), Token("T_MUL"), Token("T_POW")>>
               /\ EvalAt(Num(1)) = Num(8)

C18_Witness ==
    /\ op = "evaluate" /\ ret /\ text = Str_3xpow2
    /\ arg = Num(2) /\ result = Num(36)

\* tokens i and i + 1 are the end of one operand and the start of another,
\* and not a NUMBER before X or before '('
SideBySide(ts, i) ==
    /\ ts[i].type \in {"T_X", "T_NUMBER", "T_RPAREN"}
    /\ TypeAt(ts, i + 1) \in {"T_X", "T_NUMBER", "T_FUNC", "T_LPAREN"}
    /\ ~(ts[i].type = "T_NUMBER" /\ TypeAt(ts, i + 1) \in {"T_X", "T_LPAREN"})

\* a NUMBER directly before X or before '('
ProductAt(ts, i) ==
    ts[i].type = "T_NUMBER" /\ TypeAt(ts, i + 1) \in {"T_X", "T_LPAREN"}

Rejected19 ==
    { <<"3", "s", "i", "n", "(", "x", ")">>, <<"3", " ", "4">>, <<"x", "x">>,
      <<"x", "2">>, <<"x", "(", "x", "+", "1", ")">>,
      <<"(", "x", ")", "(", "x", ")">>, <<"2", "x", "(", "3", ")">>,
      <<"2", "(", "x", ")", "x">> }

\* C19: parse() returns false for every text in which an operand is
\* directly followed by another -- X, NUMBER or ')' before X, NUMBER, a
\* function name or '(' -- unless it is a NUMBER before X or before '(';
\* an accepted formula has one MUL per '*' and per such NUMBER, so nothing
\* else multiplies; "3sin(x)", "3 4", "xx", "x2", "x(x+1)", "(x)(x)",
\* "2x(3)" and "2(x)x" are rejected.
C19_NoOtherJuxtaposition ==
    Parsed =>
        /\ LET ts == Tokens IN
           /\ (\E i \in 1..Len(ts) : SideBySide(ts, i)) => ~ret /\ rpn = <<>>
           /\ ret => CountOf(rpn, "T_MUL") =
                         CountOf(ts, "T_MUL")
                         + Cardinality({i \in 1..Len(ts) : ProductAt(ts, i)})
        /\ text \in Rejected19 => ~ret

C19_Witness ==
    /\ Parsed /\ ~ret /\ hist.emitted >= 3
    /\ Tokens[Len(Tokens)].type = "T_END"
    /\ \E i \in 1..Len(Tokens) :
           Tokens[i].type = "T_RPAREN" /\ TypeAt(Tokens, i + 1) = "T_LPAREN"
    /\ Balanced(text)

Str_3x_sp == <<"3", " ", "x">>

Str_3_x1 == <<"3", "(", "x", "+", "1", ")">>

Str_3_x1_sp == <<"3", " ", "(", "x", "+", "1", ")">>

\* the widest whitespace inserted at one place
MaxSpaces == 2

RECURSIVE Blanks(_)
Blanks(k) == IF k = 0 THEN <<>> ELSE <<" ">> \o Blanks(k - 1)

\* s with whitespace w behind its first p characters
Insert(s, p, w) == SubSeq(s, 1, p) \o w \o SubSeq(s, p + 1, Len(s))

\* s with a space at each of the places P, from the character behind i on
RECURSIVE Spread(_, _, _)
Spread(s, P, i) ==
    IF i > Len(s) THEN <<>>
    ELSE (IF i \in P THEN <<" ">> ELSE <<>>)
         \o (IF i = Len(s) THEN <<>> ELSE <<s[i + 1]>>)
         \o Spread(s, P, i + 1)

\* the lexer's run over all of s
LexAll(s, block) ==
    Steps256(nextToken(parseEntry(Fresh, s, block), "lex"), "tokens")

\* the places between the tokens of a text that tokenizes: before the first
\* token and behind each token, counted in characters from the start
Gaps(s, block) ==
    LET l == LexAll(s, block)
    IN  IF l.pc = "catch" THEN {}
        ELSE {0} \cup {l.cuts[i] - 1 : i \in 1..Len(l.cuts)}

\* what parse(s) returns and compiles on a new parser with this block
Compiled(s, block) ==
    LET m == RunParse(parseEntry(Fresh, s, block))
    IN  [ret |-> m.ret, rpn |-> m.rpn]

\* C20: for a text that tokenizes, one or more spaces inserted before the
\* first token, behind the last or between two tokens, at one place or at
\* all of them, leave what parse() returns and the rpn it compiles as they
\* are without them; "3 x" compiles as "3x" and "3 (x+1)" as "3(x+1)".
C20_WhitespaceIgnored ==
    (op = "parse" /\ pc = "idle") =>
        /\ LET P == Gaps(text, hist.block)
               here == [ret |-> ret, rpn |-> rpn]
           IN  /\ \A p \in P, k \in 1..MaxSpaces :
                      Compiled(Insert(text, p, Blanks(k)), hist.block) = here
               /\ P # {} => Compiled(Spread(text, P, 0), hist.block) = here
        /\ text = Str_3x_sp =>
               ret /\ rpn = Compiled(Str_3x, hist.block).rpn
                   /\ Types(rpn) = <<"T_NUMBER", "T_X", "T_MUL">>
        /\ text = Str_3_x1_sp =>
               ret /\ rpn = Compiled(Str_3_x1, hist.block).rpn
                   /\ rpn[Len(rpn)] = Token("T_MUL")

C20_Witness ==
    /\ op = "parse" /\ pc = "idle" /\ ret /\ text = Str_3_x1
    /\ Cardinality(Gaps(text, hist.block)) = 7
    /\ Compiled(Str_3_x1_sp, hist.block).rpn = rpn

====
